---------------------------- MODULE Spec2Model ----------------------------
(***************************************************************************)
(* Model of src/app/index.tsx: the poster generator screen.                *)
(*                                                                         *)
(* State: the four pieces of local state of PosterGeneratorScreen          *)
(* (activeTab, prompt, scrollX, selected), plus two history variables that *)
(* record which handler ran last and the text of the last prompt edit.     *)
(*                                                                         *)
(* Numbers.  Horizontal positions are whole pixels.  The outputs of        *)
(* interpolate are kept as integers in fixed units chosen so that every    *)
(* interpolated value at a whole-pixel distance is exact:                  *)
(*   scale          in units of 1/2200    (ScaleUnit  units = 0.01)        *)
(*   translateY     in units of 1/55      (TransUnit  units = 1.0)         *)
(*   borderOpacity  in units of 1/16500   (BorderUnit units = 0.01)        *)
(* The input of the border interpolation is 2 * |distance| so that the     *)
(* breakpoint CARD_WIDTH * 0.75 = 82.5 is an integer.                      *)
(***************************************************************************)
EXTENDS Integers, Sequences, FiniteSets

VARIABLES activeTab, prompt, scrollX, selected, lastEvent, lastEdit

vars == <<activeTab, prompt, scrollX, selected, lastEvent, lastEdit>>

screen == <<activeTab, prompt, scrollX, selected>>

----------------------------------------------------------------------------
(* Design constants, index.tsx lines 35-38 (pixels).                       *)
CARD_WIDTH == 110

CARD_SPACING == 14

LEFT_PADDING == 18

(* Bounds of the model.                                                    *)
(* MaxScroll: largest content offset (pixels) a scroll event reports.      *)
MaxScroll == 640

(* MaxOverscroll: largest negative content offset (pixels), as produced by *)
(* an overscroll bounce.                                                   *)
MaxOverscroll == 20

----------------------------------------------------------------------------
(* POSTER_TYPES: the keys of the six hardcoded entries.                    *)
POSTER_TYPES ==
  <<"display", "promotion", "branding", "announcement", "poster", "menu">>

(* Indices handed to the map callbacks (0-based, as in Array.map).         *)
(* Variant: 1-based indices.                                               *)
CardIndicesOneBased == 1 .. Len(POSTER_TYPES)

CardIndices == 0 .. (Len(POSTER_TYPES) - 1)

SegmentLabels == <<"Smart script", "Advanced script">>

SegmentIndices == 0 .. (Len(SegmentLabels) - 1)

DefaultPrompt ==
  "stunning promotional image of a deliciously decorated cake, emphasiszing its layers, frosting, and toppings in an enticing setting."

(* Texts the text field may report in onChangeText.                        *)
Texts == {"", "a", "cake\nwith candles", DefaultPrompt}

NoEdit == "<no edit yet>"

snapInterval == CARD_WIDTH + CARD_SPACING

(* Content offsets (px) a scroll event may carry.                          *)
Offsets == (0 - MaxOverscroll) .. MaxScroll

(* A sparse subset of Offsets: both ends and every half snap interval.     *)
CoarseOffsets ==
  {x \in Offsets : x % (snapInterval \div 2) = 0}
    \cup {0 - MaxOverscroll, MaxScroll}

----------------------------------------------------------------------------
(* Pure helpers.                                                           *)
Abs(x) == IF x < 0 THEN 0 - x ELSE x

Min(a, b) == IF a < b THEN a ELSE b

(* interpolate(x, inputRange, outputRange, Extrapolate.CLAMP): the output  *)
(* at the first / last breakpoint outside the input range, and inside it   *)
(* the linear interpolation on the segment that holds x.  The divisions    *)
(* are exact for the ranges and units used below.                          *)
RECURSIVE Segment(_, _, _, _)
Segment(x, xs, ys, i) ==
  IF x < xs[i + 1]
    THEN ys[i] + ((x - xs[i]) * (ys[i + 1] - ys[i])) \div (xs[i + 1] - xs[i])
    ELSE Segment(x, xs, ys, i + 1)

(* Variant: Extrapolate.EXTEND past the last breakpoint.                   *)
InterpolateExtend(x, xs, ys) ==
  IF x >= xs[Len(xs)]
    THEN ys[Len(xs)] + ((x - xs[Len(xs)]) * (ys[Len(xs)] - ys[Len(xs) - 1]))
                          \div (xs[Len(xs)] - xs[Len(xs) - 1])
    ELSE Segment(x, xs, ys, 1)

Interpolate(x, xs, ys) ==
  IF x <= xs[1] THEN ys[1]
  ELSE IF x >= xs[Len(xs)] THEN ys[Len(xs)]
  ELSE Segment(x, xs, ys, 1)

ScaleUnit == 22

TransUnit == 55

BorderUnit == 165

----------------------------------------------------------------------------
(* PosterCard.animatedStyle for the card at `index` when scrollX.value is  *)
(* sx.                                                                     *)
(* Variant: the left padding left out of the card position.               *)
leftEdgeNoPadding(index) == index * (CARD_WIDTH + CARD_SPACING)

leftEdge(index) == index * (CARD_WIDTH + CARD_SPACING) + LEFT_PADDING

distanceToLeft(index, sx) == leftEdge(index) - sx

(* [0, CARD_WIDTH, CARD_WIDTH * 2]                                         *)
TransformInput == <<0, CARD_WIDTH, CARD_WIDTH * 2>>

(* [1.05, 0.95, 0.9]                                                       *)
ScaleOutput == <<105 * ScaleUnit, 95 * ScaleUnit, 90 * ScaleUnit>>

(* [-6, 0, 4]                                                              *)
TranslateOutput == <<(0 - 6) * TransUnit, 0, 4 * TransUnit>>

(* [0, CARD_WIDTH * 0.75, CARD_WIDTH * 1.5], doubled                       *)
BorderInput == <<0, (CARD_WIDTH * 3) \div 2, CARD_WIDTH * 3>>

(* [1, 0.35, 0.15]                                                         *)
BorderOutput == <<100 * BorderUnit, 35 * BorderUnit, 15 * BorderUnit>>

scale(index, sx) ==
  Interpolate(Abs(distanceToLeft(index, sx)), TransformInput, ScaleOutput)

translateY(index, sx) ==
  Interpolate(Abs(distanceToLeft(index, sx)), TransformInput, TranslateOutput)

borderOpacity(index, sx) ==
  Interpolate(2 * Abs(distanceToLeft(index, sx)), BorderInput, BorderOutput)

(* The style object returned: transform, border alpha (0.8 * opacity, in   *)
(* tenths of BorderUnit) and shadowOpacity (0.35 * (1.2 - min(scale,1.2)), *)
(* in hundredths of ScaleUnit).                                            *)
animatedStyle(index, sx) ==
  [scale         |-> scale(index, sx),
   translateY    |-> translateY(index, sx),
   borderAlpha   |-> 8 * borderOpacity(index, sx),
   shadowOpacity |-> 35 * (120 * ScaleUnit - Min(scale(index, sx), 120 * ScaleUnit))]

----------------------------------------------------------------------------
(* What the render shows for the current state.                            *)

(* SegmentedControl: the label of option i carries segmentTextActive.      *)
(* Variant: i <= activeIndex.                                              *)
SegmentTextActiveLeq(i, activeIndex) == i <= activeIndex

SegmentTextActive(i, activeIndex) == i = activeIndex

(* SegmentedControl: option i shows the gradient indicator.                *)
SegmentGradientShown(i, activeIndex) == i = activeIndex

(* TextInput value={prompt}.                                               *)
TextInputValue == prompt

(* The argument the carousel's onPress closure of card i gives setSelected *)
(* Variant: the closure reports the next index.                            *)
CardPressArgNext(i) == i + 1

CardPressArg(i) == i

(* The argument the Pressable of segment i gives onChange.                 *)
(* Variant: the closure reports the other segment.                         *)
SegmentPressArgOther(i) == 1 - i

SegmentPressArg(i) == i

----------------------------------------------------------------------------
Event(type, index, text, x) ==
  [type |-> type, index |-> index, text |-> text, x |-> x]

(* Variant: no card selected at mount.                                     *)
InitNoSelection ==
  /\ activeTab = 0
  /\ prompt = DefaultPrompt
  /\ scrollX = 0
  /\ selected = 0 - 1
  /\ lastEvent = Event("mount", 0, "", 0)
  /\ lastEdit = NoEdit

(* State after the first render of PosterGeneratorScreen.                  *)
Init ==
  /\ activeTab = 0
  /\ prompt = DefaultPrompt
  /\ scrollX = 0
  /\ selected = 0
  /\ lastEvent = Event("mount", 0, "", 0)
  /\ lastEdit = NoEdit

(* Pressing segment i: onPress={() => onChange(i)}, onChange=setActiveTab. *)
PressSegment(i) ==
  /\ activeTab' = SegmentPressArg(i)
  /\ lastEvent' = Event("pressSegment", i, "", 0)
  /\ UNCHANGED <<prompt, scrollX, selected, lastEdit>>

(* Pressing card i: onPress={() => setSelected(i)}.                        *)
(* Variant: a tap also scrolls the tapped card to the left anchor.         *)
PressCardAndScroll(i) ==
  /\ selected' = CardPressArg(i)
  /\ scrollX' = i * snapInterval
  /\ lastEvent' = Event("pressCard", i, "", 0)
  /\ UNCHANGED <<activeTab, prompt, lastEdit>>

PressCard(i) ==
  /\ selected' = CardPressArg(i)
  /\ lastEvent' = Event("pressCard", i, "", 0)
  /\ UNCHANGED <<activeTab, prompt, scrollX, lastEdit>>

(* Editing the prompt: onChangeText={setPrompt}.                           *)
(* Variant: an empty text is not stored.                                   *)
ChangeTextIgnoreEmpty(t) ==
  /\ prompt' = IF t = "" THEN prompt ELSE t
  /\ lastEvent' = Event("changeText", 0, t, 0)
  /\ lastEdit' = t
  /\ UNCHANGED <<activeTab, scrollX, selected>>

ChangeText(t) ==
  /\ prompt' = t
  /\ lastEvent' = Event("changeText", 0, t, 0)
  /\ lastEdit' = t
  /\ UNCHANGED <<activeTab, scrollX, selected>>

(* useAnimatedScrollHandler.onScroll: scrollX.value = e.contentOffset.x.   *)
OnScroll(x) ==
  /\ scrollX' = x
  /\ lastEvent' = Event("scroll", 0, "", x)
  /\ UNCHANGED <<activeTab, prompt, selected, lastEdit>>

(* useAnimatedScrollHandler.onMomentumEnd: the same assignment.            *)
OnMomentumEnd(x) ==
  /\ scrollX' = x
  /\ lastEvent' = Event("momentumEnd", 0, "", x)
  /\ UNCHANGED <<activeTab, prompt, selected, lastEdit>>

(* GenerateButton onPress={() => {}}.                                      *)
(* Variant: the button clears the prompt.                                  *)
PressGenerateClears ==
  /\ lastEvent' = Event("pressGenerate", 0, "", 0)
  /\ prompt' = ""
  /\ UNCHANGED <<activeTab, scrollX, selected, lastEdit>>

PressGenerate ==
  /\ lastEvent' = Event("pressGenerate", 0, "", 0)
  /\ UNCHANGED <<activeTab, prompt, scrollX, selected, lastEdit>>

(* CombinedList: the Size row's Pressable has no onPress.                  *)
PressSize ==
  /\ lastEvent' = Event("pressSize", 0, "", 0)
  /\ UNCHANGED <<activeTab, prompt, scrollX, selected, lastEdit>>

(* CombinedList: the Category row's Pressable has no onPress.              *)
PressCategory ==
  /\ lastEvent' = Event("pressCategory", 0, "", 0)
  /\ UNCHANGED <<activeTab, prompt, scrollX, selected, lastEdit>>

ScrollSparse == \E x \in CoarseOffsets : OnScroll(x)

MomentumEndSparse == \E x \in CoarseOffsets : OnMomentumEnd(x)

ScrollDense == \E x \in Offsets : OnScroll(x)

MomentumEndDense == \E x \in Offsets : OnMomentumEnd(x)

TapSegment == \E i \in SegmentIndices : PressSegment(i)

TapCard == \E i \in CardIndices : PressCard(i)

EditPrompt == \E t \in Texts : ChangeText(t)

(* Every event of the screen; scroll offsets from the sparse set.          *)
Next ==
  \/ TapSegment
  \/ TapCard
  \/ EditPrompt
  \/ ScrollSparse
  \/ MomentumEndSparse
  \/ PressGenerate
  \/ PressSize
  \/ PressCategory

Spec == Init /\ [][Next]_vars

(* The carousel alone: scroll events over every offset of the grid.        *)
NextCard ==
  \/ ScrollDense
  \/ MomentumEndDense

SpecCard == Init /\ [][NextCard]_vars


----------------------------------------------------------------------------
(* Properties.                                                             *)

Dist(i) == Abs(distanceToLeft(i, scrollX))

(* C1: for every card index and every scroll offset, scale lies within     *)
(* [0.9, 1.05] and translateY within [-6, 4]; they are exactly 1.05 / -6   *)
(* at distance 0 and exactly 0.9 / 4 at every distance >= 2*CARD_WIDTH;    *)
(* and whenever a scroll event does not bring a card closer, its scale     *)
(* does not increase and its translateY does not decrease.                 *)
C1_TransformClampedAndMonotone ==
  /\ [](\A i \in CardIndices :
          /\ 90 * ScaleUnit <= scale(i, scrollX)
          /\ scale(i, scrollX) <= 105 * ScaleUnit
          /\ (0 - 6) * TransUnit <= translateY(i, scrollX)
          /\ translateY(i, scrollX) <= 4 * TransUnit
          /\ (Dist(i) = 0 =>
                /\ scale(i, scrollX) = 105 * ScaleUnit
                /\ translateY(i, scrollX) = (0 - 6) * TransUnit)
          /\ (Dist(i) >= 2 * CARD_WIDTH =>
                /\ scale(i, scrollX) = 90 * ScaleUnit
                /\ translateY(i, scrollX) = 4 * TransUnit))
  /\ [][\A i \in CardIndices :
          Dist(i)' >= Dist(i) =>
            /\ scale(i, scrollX)' <= scale(i, scrollX)
            /\ translateY(i, scrollX)' >= translateY(i, scrollX)]_vars

(* A scroll event left card 0 at distance 0, card 1 strictly between the   *)
(* breakpoints and card 2 beyond the last breakpoint.                      *)
C1_Witness ==
  /\ lastEvent.type = "scroll"
  /\ Dist(0) = 0
  /\ Dist(1) > 0 /\ Dist(1) < 2 * CARD_WIDTH
  /\ Dist(2) >= 2 * CARD_WIDTH
  /\ scale(1, scrollX) < 105 * ScaleUnit /\ scale(1, scrollX) > 90 * ScaleUnit

(* C2: after a tap on the card at position i, selected is exactly i.       *)
C2_TapCardSelects ==
  lastEvent.type = "pressCard" => selected = lastEvent.index

(* Card 5 was tapped while another tab, prompt and scroll offset were set. *)
C2_Witness ==
  /\ lastEvent.type = "pressCard"
  /\ lastEvent.index = 5
  /\ selected = 5
  /\ activeTab = 1
  /\ scrollX # 0
  /\ prompt # DefaultPrompt

(* C3: after selecting segment i, the active tab index is i and option i   *)
(* (and no other) is the one displayed as active.                          *)
C3_SelectTabShowsIt ==
  lastEvent.type = "pressSegment" =>
    /\ activeTab = lastEvent.index
    /\ \A j \in SegmentIndices :
         /\ SegmentTextActive(j, activeTab) <=> (j = lastEvent.index)
         /\ SegmentGradientShown(j, activeTab) <=> (j = lastEvent.index)

(* Segment 1 was selected after a card had been tapped.                    *)
C3_Witness ==
  /\ lastEvent.type = "pressSegment"
  /\ lastEvent.index = 1
  /\ activeTab = 1
  /\ selected # 0

(* C4: after an edit to text t the stored prompt and the value the field   *)
(* shows are t; at any time after some edit the prompt is the text of the  *)
(* last edit.                                                              *)
C4_PromptIsLastEdit ==
  /\ (lastEvent.type = "changeText" =>
        /\ prompt = lastEvent.text
        /\ TextInputValue = lastEvent.text)
  /\ (lastEdit # NoEdit => prompt = lastEdit /\ TextInputValue = lastEdit)

(* The field was edited to the empty string, and other events followed.    *)
C4_Witness ==
  /\ lastEdit = ""
  /\ prompt = ""
  /\ lastEvent.type = "pressCard"

(* C5: before any user event activeTab = 0, selected = 0, scrollX = 0 and  *)
(* the prompt is the hardcoded default string.                             *)
C5_InitialState ==
  lastEvent.type = "mount" =>
    /\ activeTab = 0
    /\ selected = 0
    /\ scrollX = 0
    /\ prompt = DefaultPrompt

(* The freshly mounted screen.                                             *)
C5_Witness ==
  /\ lastEvent.type = "mount"
  /\ lastEdit = NoEdit
  /\ TextInputValue = DefaultPrompt

(* C6: selected stays within 0..5, the bounds of the six-entry list, and   *)
(* activeTab within 0..1.                                                  *)
C6_IndicesInBounds ==
  /\ Len(POSTER_TYPES) = 6
  /\ selected \in 0 .. 5
  /\ selected + 1 \in DOMAIN POSTER_TYPES
  /\ activeTab \in 0 .. 1

(* The last card and the last tab are selected.                            *)
C6_Witness ==
  /\ selected = 5
  /\ activeTab = 1
  /\ lastEvent.type \in {"scroll", "momentumEnd"}

(* C7: a step taken by the Generate button or by either settings row       *)
(* leaves activeTab, selected, prompt and scrollX unchanged.               *)
C7_ButtonsAreNoOps ==
  [][lastEvent'.type \in {"pressGenerate", "pressSize", "pressCategory"}
       => screen' = screen]_vars

(* Generate was tapped in a state that differs from the initial one in     *)
(* every piece of screen state.                                            *)
C7_Witness ==
  /\ lastEvent.type = "pressGenerate"
  /\ activeTab = 1
  /\ selected = 3
  /\ prompt = "a"
  /\ scrollX = snapInterval

(* C8: exactly one segment is rendered active (highlighted label and       *)
(* gradient indicator); the other has neither.                             *)
C8_SegmentsMutuallyExclusive ==
  \E i \in SegmentIndices :
    /\ SegmentTextActive(i, activeTab)
    /\ SegmentGradientShown(i, activeTab)
    /\ \A j \in SegmentIndices \ {i} :
         /\ ~SegmentTextActive(j, activeTab)
         /\ ~SegmentGradientShown(j, activeTab)

(* "Advanced script" is the active one after it was pressed.               *)
C8_Witness ==
  /\ lastEvent.type = "pressSegment"
  /\ SegmentTextActive(1, activeTab)
  /\ SegmentGradientShown(1, activeTab)
  /\ ~SegmentTextActive(0, activeTab)

(* C9: each event changes only its own piece of state: a tab selection     *)
(* only activeTab, a card tap only selected, a prompt edit only prompt, a  *)
(* scroll or momentum-end event with offset x sets scrollX to x and        *)
(* changes nothing else.                                                   *)
C9_EventsChangeOwnStateOnly ==
  [][/\ (lastEvent'.type = "pressSegment" =>
           UNCHANGED <<prompt, scrollX, selected>>)
     /\ (lastEvent'.type = "pressCard" =>
           UNCHANGED <<activeTab, prompt, scrollX>>)
     /\ (lastEvent'.type = "changeText" =>
           UNCHANGED <<activeTab, scrollX, selected>>)
     /\ (lastEvent'.type \in {"scroll", "momentumEnd"} =>
           /\ scrollX' = lastEvent'.x
           /\ UNCHANGED <<activeTab, prompt, selected>>)]_vars

(* The carousel came to rest at card 3's snap position while card 1 stays  *)
(* the selected one.                                                       *)
C9_Witness ==
  /\ lastEvent.type = "momentumEnd"
  /\ scrollX = 3 * snapInterval
  /\ selected = 1

(* C10: at a snap position k * (CARD_WIDTH + CARD_SPACING), card k is at   *)
(* distance LEFT_PADDING and is the unique card with the largest scale,    *)
(* the smallest translateY and the largest border opacity; no card has     *)
(* scale 1.05 or translateY -6 there.                                      *)
C10_SnapFocusesCardBelowPeak ==
  \A k \in CardIndices :
    scrollX = k * snapInterval =>
      /\ Dist(k) = LEFT_PADDING
      /\ \A j \in CardIndices \ {k} :
           /\ scale(k, scrollX) > scale(j, scrollX)
           /\ translateY(k, scrollX) < translateY(j, scrollX)
           /\ borderOpacity(k, scrollX) > borderOpacity(j, scrollX)
      /\ \A j \in CardIndices :
           /\ scale(j, scrollX) # 105 * ScaleUnit
           /\ translateY(j, scrollX) # (0 - 6) * TransUnit

(* The carousel came to rest at the last card's snap position.             *)
C10_Witness ==
  /\ lastEvent.type = "momentumEnd"
  /\ scrollX = 5 * snapInterval
  /\ Dist(5) = LEFT_PADDING

============================================================================
